---- MODULE Spec2Model ----
(***************************************************************************)
(* A model of sqm_analyzer: the DataFrame enrichment of analysis.py        *)
(* (compute_astral_values, the Filter classes, label_days_and_nights) and  *)
(* the streamlit script of app.py that calls them on the loaded device.    *)
(*                                                                         *)
(* Time is counted in units of 30 minutes since 1970-01-01T00:00Z, so      *)
(* that every timestamp and timedelta the model uses is an integer.        *)
(* A DataFrame is a function from its column names to the column values,   *)
(* each a sequence indexed by row position (the RangeIndex read_csv gives).*)
(* A lunar age is counted in units of 1/AgeScale day and a moon phase is   *)
(* the exact rational [num, den].                                          *)
(***************************************************************************)
EXTENDS Integers, Sequences, FiniteSets, TLC

VARIABLES
    df,             \* the DataFrame handed to the functions of analysis.py
    last_call,      \* the arguments of the label_days_and_nights call made
                    \* last (in the app: by the last run of the script), as
                    \* they were on entry, or None
    raised,         \* the exception that call ended with, or "none"
    sky,            \* what astral computes at each timestamp for the observer
    session_state,  \* st.session_state of the app
    uploaded_file   \* the value of the st.file_uploader widget

vars == <<df, last_call, raised, sky, session_state, uploaded_file>>

\* Python's None is the empty tuple and any other value v of an optional
\* field is <<v>>, so that the two compare.
None == <<>>
Some(v) == <<v>>
Get(o) == o[1]

-----------------------------------------------------------------------------
(* Bounds of the model *)

MaxLen == 3         \* rows of a DataFrame handed to label_days_and_nights
MaxFileRows == 2    \* data rows of an uploaded .dat file
AgeScale == 2       \* a lunar age is a multiple of 1/AgeScale day

-----------------------------------------------------------------------------
(* Program constants *)

DEFAULT_MOON_ELEVATION_FILTER == 5
DEFAULT_SUN_ELEVATION_FILTER == -15

\* datetime.fromisoformat("1990-01-01T00:00:00.000Z"): 7305 days after
\* 1970-01-01, in units of 30 minutes
SENTINEL_DT == 350640

\* timedelta(hours=12), in units of 30 minutes
TWELVE_HOURS == 24

\* the lunar age of a full moon, in days
FULL_MOON_AGE == 14

-----------------------------------------------------------------------------
(* DataFrame helpers *)

Abs(x) == IF x < 0 THEN -x ELSE x

NRows(d) == Len(d["datetime"])

\* d[name] = values
SetCol(d, name, values) ==
    [c \in DOMAIN d \cup {name} |-> IF c = name THEN values ELSE d[c]]

\* str.startswith
startswith(s, prefix) ==
    /\ Len(s) >= Len(prefix)
    /\ SubSeq(s, 1, Len(prefix)) = prefix

-----------------------------------------------------------------------------
(* analysis.py: the filters *)

Filter(column, value) ==
    [class |-> "Filter", column |-> column, value |-> value, comparitor |-> ""]

FilterLessThan(column, value) ==
    [class |-> "FilterLessThan", column |-> column, value |-> value,
     comparitor |-> "<"]

\* Only FilterLessThan defines a method named evaluate; the base class
\* defines "evalulate".
has_evaluate(filter) == filter.class = "FilterLessThan"

\* evaluate with <= for <
evaluate_le(filter, d) ==
    [i \in 1..Len(d["datetime"]) |-> d[filter.column][i] <= filter.value]

\* FilterLessThan.evaluate: df[self.column] < self.value, elementwise
evaluate(filter, d) ==
    [i \in 1..NRows(d) |-> d[filter.column][i] < filter.value]

-----------------------------------------------------------------------------
(* analysis.py: compute_astral_values *)

\* moon_phase without the abs
moon_phase_no_abs(age) ==
    [num |-> FULL_MOON_AGE * AgeScale - (age - FULL_MOON_AGE * AgeScale),
     den |-> FULL_MOON_AGE * AgeScale]

\* 1 - abs(mp - 14) / 14.0 for the lunar age mp = age / AgeScale days
moon_phase(age) ==
    [num |-> FULL_MOON_AGE * AgeScale - Abs(age - FULL_MOON_AGE * AgeScale),
     den |-> FULL_MOON_AGE * AgeScale]

\* data gets the columns moon_phase, moon_elevation and sun_elevation, each
\* computed from data["datetime"]; s[dt] is what astral's moon.phase,
\* moon.elevation and sun.elevation return at dt for the observer.
compute_astral_values(data, s) ==
    LET n == NRows(data)
        d1 == SetCol(data, "moon_phase",
                     [i \in 1..n |-> moon_phase(s[data["datetime"][i]].age)])
        d2 == SetCol(d1, "moon_elevation",
                     [i \in 1..n |-> s[data["datetime"][i]].moon])
    IN  SetCol(d2, "sun_elevation",
               [i \in 1..n |-> s[data["datetime"][i]].sun])

-----------------------------------------------------------------------------
(* analysis.py: label_days_and_nights *)

\* the for loop over night_filters, from filter number k on
RECURSIVE apply_night_filters(_, _, _)
apply_night_filters(d, filters, k) ==
    IF k > Len(filters) THEN [df |-> d, raised |-> "none"]
    ELSE LET filter == filters[k] IN
         IF ~has_evaluate(filter) THEN [df |-> d, raised |-> "AttributeError"]
         ELSE IF filter.column \notin DOMAIN d
              THEN [df |-> d, raised |-> "KeyError"]
         ELSE apply_night_filters(
                  SetCol(d, "is_night",
                         [i \in 1..NRows(d) |->
                             d["is_night"][i] /\ evaluate(filter, d)[i]]),
                  filters, k + 1)

\* the locals before the loop over the rows
loop_start ==
    [previous_dt |-> SENTINEL_DT, previous_group |-> "night",
     group_idx |-> -1, group_labels |-> <<>>]

\* loop_body with >= for > in the test of the gap
loop_body_ge(st, dt, night) ==
    LET new_group == IF night THEN "night" ELSE "day"
        group_idx ==
            IF dt - st.previous_dt >= TWELVE_HOURS THEN st.group_idx + 1
            ELSE IF night /\ st.previous_group = "day" THEN st.group_idx + 1
            ELSE IF ~night /\ st.previous_group = "night" THEN st.group_idx + 1
            ELSE st.group_idx
    IN  [previous_dt |-> dt, previous_group |-> new_group,
         group_idx |-> group_idx,
         group_labels |->
             Append(st.group_labels, new_group \o "_" \o ToString(group_idx))]

\* loop_body that names the label after previous_group
loop_body_previous_kind(st, dt, night) ==
    LET new_group == IF night THEN "night" ELSE "day"
        group_idx ==
            IF dt - st.previous_dt > TWELVE_HOURS THEN st.group_idx + 1
            ELSE IF night /\ st.previous_group = "day" THEN st.group_idx + 1
            ELSE IF ~night /\ st.previous_group = "night" THEN st.group_idx + 1
            ELSE st.group_idx
    IN  [previous_dt |-> dt, previous_group |-> new_group,
         group_idx |-> group_idx,
         group_labels |->
             Append(st.group_labels,
                    st.previous_group \o "_" \o ToString(group_idx))]

\* loop_body without previous_dt = dt
loop_body_keep_previous_dt(st, dt, night) ==
    LET new_group == IF night THEN "night" ELSE "day"
        group_idx ==
            IF dt - st.previous_dt > TWELVE_HOURS THEN st.group_idx + 1
            ELSE IF night /\ st.previous_group = "day" THEN st.group_idx + 1
            ELSE IF ~night /\ st.previous_group = "night" THEN st.group_idx + 1
            ELSE st.group_idx
    IN  [previous_dt |-> st.previous_dt, previous_group |-> new_group,
         group_idx |-> group_idx,
         group_labels |->
             Append(st.group_labels, new_group \o "_" \o ToString(group_idx))]

\* loop_body without the test of the gap
loop_body_no_gap(st, dt, night) ==
    LET new_group == IF night THEN "night" ELSE "day"
        group_idx ==
            IF night /\ st.previous_group = "day" THEN st.group_idx + 1
            ELSE IF ~night /\ st.previous_group = "night" THEN st.group_idx + 1
            ELSE st.group_idx
    IN  [previous_dt |-> dt, previous_group |-> new_group,
         group_idx |-> group_idx,
         group_labels |->
             Append(st.group_labels, new_group \o "_" \o ToString(group_idx))]

\* one iteration of the loop over df.index
loop_body(st, dt, night) ==
    LET new_group == IF night THEN "night" ELSE "day"
        group_idx ==
            IF dt - st.previous_dt > TWELVE_HOURS THEN st.group_idx + 1
            ELSE IF night /\ st.previous_group = "day" THEN st.group_idx + 1
            ELSE IF ~night /\ st.previous_group = "night" THEN st.group_idx + 1
            ELSE st.group_idx
    IN  [previous_dt |-> dt, previous_group |-> new_group,
         group_idx |-> group_idx,
         group_labels |->
             Append(st.group_labels, new_group \o "_" \o ToString(group_idx))]

\* the loop over the rows, from row i on
RECURSIVE loop(_, _, _)
loop(d, st, i) ==
    IF i > NRows(d) THEN st
    ELSE loop(d, loop_body(st, d["datetime"][i], d["is_night"][i]), i + 1)

\* reset_is_night that keeps a column is_night the DataFrame already has
reset_is_night_keep(d) ==
    IF "is_night" \in DOMAIN d THEN d
    ELSE SetCol(d, "is_night", [i \in 1..Len(d["datetime"]) |-> TRUE])

\* df["is_night"] = True
reset_is_night(d) == SetCol(d, "is_night", [i \in 1..NRows(d) |-> TRUE])

\* label_days_and_nights with a check of the order of the timestamps first
label_days_and_nights_guarded(d, filters) ==
    IF \E i \in 2..Len(d["datetime"]) : d["datetime"][i] < d["datetime"][i - 1]
    THEN [df |-> d, raised |-> "MalformedInputError"]
    ELSE LET filtered == apply_night_filters(reset_is_night(d), filters, 1)
         IN  IF filtered.raised # "none" THEN filtered
             ELSE [df |-> SetCol(filtered.df, "group",
                                 loop(filtered.df, loop_start, 1).group_labels),
                   raised |-> "none"]

\* The whole function: the DataFrame as the call leaves it, and the
\* exception it ends with ("none" when it returns).  The parameter
\* elevation is not read by the code.
label_days_and_nights(d, filters) ==
    LET filtered == apply_night_filters(reset_is_night(d), filters, 1)
    IN  IF filtered.raised # "none" THEN filtered
        ELSE [df |-> SetCol(filtered.df, "group",
                            loop(filtered.df, loop_start, 1).group_labels),
              raised |-> "none"]

-----------------------------------------------------------------------------
(* Inputs of the function-level specification *)

\* Timestamps around the sentinel: at most 12 hours after it (0, 2, 3) and
\* more than 12 hours after it (27, 51), with gaps of exactly 12 hours
\* (3 to 27, 27 to 51), of 12.5 hours (2 to 27), shorter and longer ones.
Offsets == {0, 2, 3, 27, 51}

Timestamps == {SENTINEL_DT + o : o \in Offsets}

\* (sun elevation, moon elevation) of a row: below both default thresholds,
\* sun equal to its threshold, moon equal to its threshold
Elevations ==
    { <<DEFAULT_SUN_ELEVATION_FILTER - 1, DEFAULT_MOON_ELEVATION_FILTER - 1>>,
      <<DEFAULT_SUN_ELEVATION_FILTER, DEFAULT_MOON_ELEVATION_FILTER - 1>>,
      <<DEFAULT_SUN_ELEVATION_FILTER - 1, DEFAULT_MOON_ELEVATION_FILTER>> }

SeqsUpTo(S, n) == UNION {[1..k -> S] : k \in 0..n}

\* a DataFrame as SQM.__init__ leaves it: no astronomical columns
RawFrame(dts) == [datetime |-> dts]

\* a DataFrame that has the columns compute_astral_values adds
EnrichedFrame(dts, els) ==
    [datetime |-> dts,
     moon_phase |-> [i \in 1..Len(dts) |-> moon_phase(0)],
     moon_elevation |-> [i \in 1..Len(dts) |-> els[i][2]],
     sun_elevation |-> [i \in 1..Len(dts) |-> els[i][1]]]

\* rows at 00:00, 01:00, 13:30 and 14:00 hours after t0, all dark
ScenarioFrame(t0) ==
    EnrichedFrame(<<t0, t0 + 2, t0 + 27, t0 + 28>>,
                  [i \in 1..4 |-> <<DEFAULT_SUN_ELEVATION_FILTER - 1,
                                    DEFAULT_MOON_ELEVATION_FILTER - 1>>])

\* "the epoch" of the scenario: 1970-01-01T00:00Z, or the 1990 sentinel
ScenarioEpochs == {0, SENTINEL_DT}

\* the DataFrames label_days_and_nights is called on
IsInputFrame(d) ==
    \/ \E t0 \in ScenarioEpochs : d = ScenarioFrame(t0)
    \/ \E dts \in SeqsUpTo(Timestamps, MaxLen) :
          \/ d = RawFrame(dts)
          \/ \E els \in [1..Len(dts) -> Elevations] :
                d = EnrichedFrame(dts, els)

SunFilter == FilterLessThan("sun_elevation", DEFAULT_SUN_ELEVATION_FILTER)
MoonFilter == FilterLessThan("moon_elevation", DEFAULT_MOON_ELEVATION_FILTER)

FilterLists ==
    { <<>>, <<SunFilter>>, <<SunFilter, MoonFilter>>,
      <<Filter("sun_elevation", DEFAULT_SUN_ELEVATION_FILTER)>>,
      <<SunFilter, Filter("moon_elevation", DEFAULT_MOON_ELEVATION_FILTER)>> }

-----------------------------------------------------------------------------
(* sqm.py *)

\* SQM.__init__: the position is read from the header line
\* "Position (lat, lon, elev(m))"; when the line is absent or does not
\* parse, latitude and longitude are None and the elevation is 0.  The
\* data get the column "datetime" parsed from the UTC column of the file.
SQM(file) ==
    [latitude |-> IF file.position = None THEN None
                  ELSE Some(Get(file.position)[1]),
     longitude |-> IF file.position = None THEN None
                   ELSE Some(Get(file.position)[2]),
     elevation |-> IF file.position = None THEN 0 ELSE Get(file.position)[3],
     data |-> RawFrame(file.datetimes)]

-----------------------------------------------------------------------------
(* app.py *)

InitialSessionState ==
    [device |-> None, using_demo_data |-> FALSE,
     slider_sun |-> DEFAULT_SUN_ELEVATION_FILTER,
     slider_moon |-> DEFAULT_MOON_ELEVATION_FILTER]

clear_data(ss) == [ss EXCEPT !.device = None, !.using_demo_data = FALSE]

\* the header position of the demo dataset is the one the FAQ quotes
Position == <<32, -85, 120>>

DemoFile ==
    [position |-> Some(Position),
     datetimes |-> <<SENTINEL_DT + 2, SENTINEL_DT + 27>>]

load_demo_data(ss) ==
    [ss EXCEPT !.device = Some(SQM(DemoFile)), !.using_demo_data = TRUE]

reset_filters(ss) ==
    [ss EXCEPT !.slider_sun = DEFAULT_SUN_ELEVATION_FILTER,
               !.slider_moon = DEFAULT_MOON_ELEVATION_FILTER]

\* night_filters as the script builds it from the two sliders
slider_filters(ss) ==
    << FilterLessThan("sun_elevation", ss.slider_sun),
       FilterLessThan("moon_elevation", ss.slider_moon) >>

\* the script without the test of the position
location_info_always(device) == TRUE

location_info_specified(device) ==
    device.latitude # None /\ device.longitude # None

\* the script when the two functions leave the DataFrame passed to them as
\* it is and return their columns, which the script does not read
script_discard(ss, uf, s) ==
    IF uf # None \/ ss.using_demo_data
    THEN LET device == IF ss.device = None THEN SQM(Get(uf))
                       ELSE Get(ss.device)
             filters == slider_filters(ss)
         IN  IF location_info_specified(device)
             THEN LET enriched == compute_astral_values(device.data, s)
                      r == label_days_and_nights(enriched, filters)
                  IN  [ss |-> [ss EXCEPT !.device = Some(device)],
                       call |-> Some([df |-> enriched,
                                      night_filters |-> filters]),
                       raised |-> r.raised]
             ELSE [ss |-> [ss EXCEPT !.device = Some(device)], call |-> None,
                   raised |-> "none"]
    ELSE [ss |-> ss, call |-> None, raised |-> "none"]

\* One run of the script from the session state ss with the uploader
\* holding uf: the session state it leaves, and the label_days_and_nights
\* call it made, if any.
script(ss, uf, s) ==
    IF uf # None \/ ss.using_demo_data
    THEN LET device == IF ss.device = None THEN SQM(Get(uf))
                       ELSE Get(ss.device)
             filters == slider_filters(ss)
         IN  IF location_info_specified(device)
             THEN LET enriched == compute_astral_values(device.data, s)
                      r == label_days_and_nights(enriched, filters)
                  IN  [ss |-> [ss EXCEPT !.device =
                                   Some([device EXCEPT !.data = r.df])],
                       call |-> Some([df |-> enriched,
                                      night_filters |-> filters]),
                       raised |-> r.raised]
             ELSE [ss |-> [ss EXCEPT !.device = Some(device)], call |-> None,
                   raised |-> "none"]
    ELSE [ss |-> ss, call |-> None, raised |-> "none"]

-----------------------------------------------------------------------------
(* Spec: label_days_and_nights called on any DataFrame with any filter list *)

NoSky == <<>>

Init ==
    /\ IsInputFrame(df)
    /\ last_call = None
    /\ raised = "none"
    /\ sky = NoSky
    /\ session_state = InitialSessionState
    /\ uploaded_file = None

\* one call per behaviour: the DataFrame of Init is the input, the filter
\* list is chosen at the call
LabelDaysAndNights ==
    /\ last_call = None
    /\ \E filters \in FilterLists :
        LET r == label_days_and_nights(df, filters) IN
        /\ df' = r.df
        /\ raised' = r.raised
        /\ last_call' = Some([df |-> df, night_filters |-> filters])
    /\ UNCHANGED <<sky, session_state, uploaded_file>>

Next == LabelDaysAndNights

Spec == Init /\ [][Next]_vars

-----------------------------------------------------------------------------
(* SpecAstral: compute_astral_values called on a DataFrame of SQM.__init__ *)

AstralTimestamps == {SENTINEL_DT + 27, SENTINEL_DT + 51}

\* astral's moon.phase returns a lunar age in [0, 28)
Ages == 0 .. (2 * FULL_MOON_AGE * AgeScale - 1)

AstralSkies ==
    [AstralTimestamps ->
        {[age |-> a, sun |-> DEFAULT_SUN_ELEVATION_FILTER,
          moon |-> DEFAULT_MOON_ELEVATION_FILTER] : a \in Ages}]

InitAstral ==
    /\ df \in {RawFrame(dts) : dts \in SeqsUpTo(AstralTimestamps, MaxFileRows)}
    /\ sky \in AstralSkies
    /\ last_call = None
    /\ raised = "none"
    /\ session_state = InitialSessionState
    /\ uploaded_file = None

ComputeAstralValues ==
    /\ "moon_phase" \notin DOMAIN df
    /\ df' = compute_astral_values(df, sky)
    /\ UNCHANGED <<last_call, raised, sky, session_state, uploaded_file>>

NextAstral == ComputeAstralValues

SpecAstral == InitAstral /\ [][NextAstral]_vars

-----------------------------------------------------------------------------
(* SpecApp: the streamlit app; every event runs its callback and then the  *)
(* whole script                                                            *)

FileTimestamps == {SENTINEL_DT + 2, SENTINEL_DT + 27}

Files ==
    {[position |-> p, datetimes |-> dts] :
        p \in {None, Some(Position)},
        dts \in SeqsUpTo(FileTimestamps, MaxFileRows) \ {<<>>}}

AppSkies ==
    [FileTimestamps ->
        {[age |-> 0, sun |-> e[1], moon |-> e[2]] : e \in Elevations}]

\* the values a slider is moved to
SunSliderValues ==
    {DEFAULT_SUN_ELEVATION_FILTER, DEFAULT_SUN_ELEVATION_FILTER + 1}
MoonSliderValues ==
    {DEFAULT_MOON_ELEVATION_FILTER, DEFAULT_MOON_ELEVATION_FILTER + 1}

InitApp ==
    /\ session_state = InitialSessionState
    /\ uploaded_file = None
    /\ sky \in AppSkies
    /\ df = RawFrame(<<>>)
    /\ last_call = None
    /\ raised = "none"

\* the script runs from the session state ss with the uploader holding uf
Rerun(ss, uf) ==
    LET r == script(ss, uf, sky) IN
    /\ session_state' = r.ss
    /\ uploaded_file' = uf
    /\ last_call' = r.call
    /\ raised' = r.raised
    /\ UNCHANGED <<df, sky>>

UploadFile ==
    \E f \in Files :
        /\ Some(f) # uploaded_file
        /\ Rerun(clear_data(session_state), Some(f))

RemoveFile ==
    /\ uploaded_file # None
    /\ Rerun(clear_data(session_state), None)

LoadDemoDataset == Rerun(load_demo_data(session_state), uploaded_file)

MoveSunSlider ==
    \E v \in SunSliderValues :
        /\ v # session_state.slider_sun
        /\ Rerun([session_state EXCEPT !.slider_sun = v], uploaded_file)

MoveMoonSlider ==
    \E v \in MoonSliderValues :
        /\ v # session_state.slider_moon
        /\ Rerun([session_state EXCEPT !.slider_moon = v], uploaded_file)

ResetFilters == Rerun(reset_filters(session_state), uploaded_file)

NextApp ==
    \/ UploadFile
    \/ RemoveFile
    \/ LoadDemoDataset
    \/ MoveSunSlider
    \/ MoveMoonSlider
    \/ ResetFilters

SpecApp == InitApp /\ [][NextApp]_vars

-----------------------------------------------------------------------------
(* Properties of label_days_and_nights, under Spec *)

\* the call of label_days_and_nights was made and returned
Labelled == last_call # None /\ raised = "none"

\* the call's arguments on entry
EntryFrame == Get(last_call).df
EntryFilters == Get(last_call).night_filters

Kinds == {"night", "day"}

\* the ordinal a group label ends with, read back from the string
Ordinal(label) ==
    CHOOSE k \in -1 .. Len(label) :
        \E kind \in Kinds : label = kind \o "_" \o ToString(k)

\* the kind a group label starts with, read back from the string
KindOf(label) ==
    CHOOSE kind \in Kinds :
        \E k \in -1 .. Len(label) : label = kind \o "_" \o ToString(k)

Gap(d, i) == d["datetime"][i] - d["datetime"][i - 1]

\* row i starts a new segment after row i - 1
Boundary(d, i) ==
    \/ Gap(d, i) > TWELVE_HOURS
    \/ d["is_night"][i] # d["is_night"][i - 1]

\* C1: from one row to the next the ordinal of the group label grows by
\* exactly 1 when the gap is longer than 12 hours or the kind changes, and
\* stays the same otherwise; so it never decreases.
C1_OrdinalStep ==
    Labelled =>
        \A i \in 2..NRows(df) :
            /\ Ordinal(df["group"][i]) =
                   Ordinal(df["group"][i - 1])
                       + (IF Boundary(df, i) THEN 1 ELSE 0)
            /\ Ordinal(df["group"][i]) >= Ordinal(df["group"][i - 1])

\* a labelled DataFrame with a gap of exactly 12 hours and unchanged kind,
\* and a longer gap together with a change of kind
C1_Witness ==
    /\ Labelled
    /\ \E i \in 2..NRows(df) :
          /\ Gap(df, i) = TWELVE_HOURS
          /\ df["is_night"][i] = df["is_night"][i - 1]
          /\ Ordinal(df["group"][i]) = Ordinal(df["group"][i - 1])
    /\ \E i \in 2..NRows(df) :
          /\ Gap(df, i) > TWELVE_HOURS
          /\ df["is_night"][i] # df["is_night"][i - 1]
          /\ Ordinal(df["group"][i]) = Ordinal(df["group"][i - 1]) + 1

\* C2: whatever the first row's timestamp and is_night, the first row's
\* label is night_0 or day_0.
C2_FirstRowOrdinalZero ==
    (Labelled /\ NRows(df) >= 1) =>
        df["group"][1] = (IF df["is_night"][1] THEN "night_0" ELSE "day_0")

\* C3: four dark rows at 00:00, 01:00, 13:30 and 14:00 hours since the
\* epoch get the labels night_0, night_0, night_1, night_1.
C3_Scenario ==
    (Labelled /\ \E t0 \in ScenarioEpochs : EntryFrame = ScenarioFrame(t0)) =>
        df["group"] = <<"night_0", "night_0", "night_1", "night_1">>

\* C4: is_night of a row is the conjunction, over the filters supplied, of
\* the strict test column < value at that row (TRUE for the empty list).
C4_IsNightIsConjunction ==
    Labelled =>
        \A i \in 1..NRows(df) :
            df["is_night"][i] =
                (\A k \in 1..Len(EntryFilters) :
                    df[EntryFilters[k].column][i] < EntryFilters[k].value)

\* the two default filters were applied to a row with the sun at its
\* threshold, a row with the moon at its threshold and a row below both
C4_Witness ==
    /\ Labelled
    /\ EntryFilters = <<SunFilter, MoonFilter>>
    /\ \E i \in 1..NRows(df) :
          /\ df["sun_elevation"][i] = SunFilter.value
          /\ df["moon_elevation"][i] < MoonFilter.value
          /\ ~df["is_night"][i]
    /\ \E i \in 1..NRows(df) :
          /\ df["moon_elevation"][i] = MoonFilter.value
          /\ df["sun_elevation"][i] < SunFilter.value
          /\ ~df["is_night"][i]
    /\ \E i \in 1..NRows(df) : df["is_night"][i]

\* C5: there is one group label per input row, in input order, and a label
\* starts with "night" exactly when the row's is_night is true and with
\* "day" otherwise.
C5_OneLabelPerRow ==
    Labelled =>
        /\ df["datetime"] = EntryFrame["datetime"]
        /\ Len(df["group"]) = Len(EntryFrame["datetime"])
        /\ Len(df["is_night"]) = Len(EntryFrame["datetime"])
        /\ \A i \in 1..NRows(df) :
              /\ KindOf(df["group"][i]) =
                     (IF df["is_night"][i] THEN "night" ELSE "day")
              /\ startswith(df["group"][i], "night") = df["is_night"][i]

\* a labelled DataFrame with a night row and a day row
C5_Witness ==
    /\ Labelled
    /\ \E i \in 1..NRows(df) : startswith(df["group"][i], "night")
    /\ \E i \in 1..NRows(df) : ~startswith(df["group"][i], "night")

\* the timestamps never go back
TimeOrdered(d) == \A i \in 2..NRows(d) : Gap(d, i) >= 0

\* C6: a non-empty time-ordered DataFrame of one kind with no gap longer
\* than 12 hours gets one single group label.
C6_SingleSegment ==
    ( /\ Labelled
      /\ NRows(df) >= 1
      /\ TimeOrdered(df)
      /\ \A i \in 2..NRows(df) : ~Boundary(df, i) ) =>
        Cardinality({df["group"][i] : i \in 1..NRows(df)}) = 1

\* three rows of one kind, 12 hours apart each, in one segment
C6_Witness ==
    /\ Labelled
    /\ NRows(df) >= 3
    /\ \A i \in 2..NRows(df) :
          /\ Gap(df, i) = TWELVE_HOURS
          /\ df["is_night"][i] = df["is_night"][i - 1]
    /\ Cardinality({df["group"][i] : i \in 1..NRows(df)}) = 1

\* C9 as stated: on timestamps that go back somewhere the call fails with
\* MalformedInputError and writes no group labels.
C9_RaisesOnUnordered ==
    (last_call # None /\ ~TimeOrdered(EntryFrame)) =>
        /\ raised = "MalformedInputError"
        /\ "group" \notin DOMAIN df

\* every filter of the list is a FilterLessThan on a column of d
FiltersApply(d, filters) ==
    \A k \in 1..Len(filters) :
        has_evaluate(filters[k]) /\ filters[k].column \in DOMAIN d

\* C9, amended: the call checks no order.  It never ends with
\* MalformedInputError; whenever its filters apply it returns and writes one
\* group label per row, on timestamps that go back too, where a step back
\* counts as a gap of at most 12 hours.
C9_NoOrderCheck ==
    last_call # None =>
        /\ raised # "MalformedInputError"
        /\ FiltersApply(EntryFrame, EntryFilters) =>
              /\ raised = "none"
              /\ "group" \in DOMAIN df
              /\ Len(df["group"]) = Len(EntryFrame["datetime"])
              /\ \A i \in 2..NRows(df) :
                    (Gap(df, i) < 0
                         /\ df["is_night"][i] = df["is_night"][i - 1])
                        => df["group"][i] = df["group"][i - 1]

\* the call returned on timestamps that go back and labelled the rows
C9_Witness ==
    /\ Labelled
    /\ ~TimeOrdered(EntryFrame)
    /\ "group" \in DOMAIN df
    /\ \E i \in 2..NRows(df) :
          Gap(df, i) < 0 /\ df["group"][i] = df["group"][i - 1]

\* C12: a group label names one run of consecutive rows.  A label never
\* comes back after a different one, and two adjacent rows carry the same
\* label exactly when they are of the same kind and at most 12 hours apart.
C12_LabelIsOneRun ==
    Labelled =>
        /\ \A i, j, k \in 1..NRows(df) :
              (i < j /\ j < k /\ df["group"][i] = df["group"][k]) =>
                  df["group"][j] = df["group"][i]
        /\ \A i \in 2..NRows(df) :
              (df["group"][i] = df["group"][i - 1]) <=> ~Boundary(df, i)

\* three rows of one kind: the first two share a label, the third comes
\* more than 12 hours later and gets another one
C12_Witness ==
    /\ Labelled
    /\ NRows(df) = 3
    /\ df["is_night"][1] = df["is_night"][2]
    /\ df["is_night"][2] = df["is_night"][3]
    /\ df["group"][1] = df["group"][2]
    /\ Gap(df, 3) > TWELVE_HOURS
    /\ df["group"][3] # df["group"][2]

\* the list holds a base Filter, and every FilterLessThan of it is on a
\* column of d
HasBaseFilter(d, filters) ==
    /\ \E k \in 1..Len(filters) : filters[k].class = "Filter"
    /\ \A k \in 1..Len(filters) :
          filters[k].class = "FilterLessThan" => filters[k].column \in DOMAIN d

\* C13: a call whose filter list holds a base Filter returns, and is_night
\* of every row is the conjunction of the other filters' tests.
C13_BaseFilterAlwaysTrue ==
    (last_call # None /\ HasBaseFilter(EntryFrame, EntryFilters)) =>
        /\ raised = "none"
        /\ "group" \in DOMAIN df
        /\ \A i \in 1..NRows(df) :
              df["is_night"][i] =
                  (\A k \in 1..Len(EntryFilters) :
                      EntryFilters[k].class = "FilterLessThan" =>
                          df[EntryFilters[k].column][i] < EntryFilters[k].value)

-----------------------------------------------------------------------------
(* Properties of the app, under SpecApp *)

HasDevice == session_state.device # None
Device == Get(session_state.device)

AstralColumns == {"moon_phase", "moon_elevation", "sun_elevation"}
LabelColumns == {"is_night", "group"}

\* what a first run of the enrichment and of the labelling with the filters
\* of the sliders gives on the DataFrame as SQM.__init__ built it
FirstRun(data, ss) ==
    label_days_and_nights(
        compute_astral_values(RawFrame(data["datetime"]), sky),
        slider_filters(ss)).df

\* C7: after every run of the script the data of a device with an Observer
\* are what a first run with the current sliders gives on a fresh DataFrame,
\* whatever columns earlier runs left in them.
C7_RerunIsFirstRun ==
    (HasDevice /\ location_info_specified(Device)) =>
        /\ raised = "none"
        /\ Device.data = FirstRun(Device.data, session_state)

\* the last run relabelled data that carried is_night and group from an
\* earlier run, and changed is_night
C7_Witness ==
    /\ HasDevice
    /\ last_call # None
    /\ LabelColumns \subseteq DOMAIN EntryFrame
    /\ EntryFrame["is_night"] # Device.data["is_night"]
    /\ EntryFrame["group"] # Device.data["group"]

\* C8: without an Observer the script calls neither function, so the data
\* have none of the five derived columns; is_night and group are there only
\* together with the three astronomical columns.
C8_NoObserverNoColumns ==
    HasDevice =>
        /\ (Device.latitude = None \/ Device.longitude = None) =>
              /\ DOMAIN Device.data \cap (AstralColumns \cup LabelColumns) = {}
              /\ last_call = None
        /\ (DOMAIN Device.data \cap LabelColumns # {}) =>
              AstralColumns \subseteq DOMAIN Device.data

\* a file without position is loaded while the sliders are off their
\* defaults, and a device with position has all five columns
C8_Witness ==
    /\ HasDevice
    /\ Device.latitude = None
    /\ uploaded_file # None
    /\ session_state.slider_sun # DEFAULT_SUN_ELEVATION_FILTER
    /\ DOMAIN Device.data = {"datetime"}

\* the file the device was built from
LoadedFile ==
    IF session_state.using_demo_data THEN DemoFile ELSE Get(uploaded_file)

\* C11 as stated: the two functions leave the DataFrame passed to them
\* unchanged, so the data of the device stay as SQM.__init__ built them.
C11_DatasetUnchanged ==
    HasDevice => Device.data = SQM(LoadedFile).data

\* C11, amended: both functions write their columns into the DataFrame
\* passed to them and return nothing.  After a run of the script on a device
\* with an Observer the data of the device themselves carry the three
\* astronomical columns, as compute_astral_values set them, and is_night and
\* group; the column datetime is left as SQM.__init__ built it.
C11_ColumnsWrittenInPlace ==
    (HasDevice /\ location_info_specified(Device)) =>
        /\ last_call # None
        /\ DOMAIN Device.data = {"datetime"} \cup AstralColumns \cup LabelColumns
        /\ Device.data["datetime"] = LoadedFile.datetimes
        /\ EntryFrame["datetime"] = LoadedFile.datetimes
        /\ AstralColumns \subseteq DOMAIN EntryFrame
        /\ \A c \in AstralColumns : Device.data[c] = EntryFrame[c]
        /\ \A c \in AstralColumns :
              Device.data[c] =
                  compute_astral_values(SQM(LoadedFile).data, sky)[c]

\* a run of the script has enriched and labelled the data of a device that
\* came from an uploaded file
C11_Witness ==
    /\ HasDevice
    /\ ~session_state.using_demo_data
    /\ last_call # None
    /\ Device.data # SQM(LoadedFile).data
    /\ AstralColumns \cup LabelColumns \subseteq DOMAIN Device.data
    /\ NRows(Device.data) >= 2

-----------------------------------------------------------------------------
(* Properties of compute_astral_values, under SpecAstral *)

\* the lunar age astral gives for row i
AgeOfRow(i) == sky[df["datetime"][i]].age

FullMoon == FULL_MOON_AGE * AgeScale

\* C10: the moon phase of a row is 1 - |a - 14| / 14 for its lunar age a:
\* within [0, 1], 1 exactly at age 14, 0 at age 0, and equal for the ages
\* 14 - d and 14 + d.
C10_MoonPhase ==
    "moon_phase" \in DOMAIN df =>
        /\ Len(df["moon_phase"]) = NRows(df)
        /\ \A i \in 1..NRows(df) :
              LET p == df["moon_phase"][i]
                  a == AgeOfRow(i)
              IN  /\ p.den > 0
                  /\ p.num * FullMoon = p.den * (FullMoon - Abs(a - FullMoon))
                  /\ 0 <= p.num /\ p.num <= p.den
                  /\ (p.num = p.den) <=> (a = FullMoon)
                  /\ (a = 0) => (p.num = 0)
        /\ \A i, j \in 1..NRows(df) :
              (AgeOfRow(i) + AgeOfRow(j) = 2 * FullMoon) =>
                  df["moon_phase"][i] = df["moon_phase"][j]

\* two rows at the ages 14 - d and 14 + d, d > 0, with the same phase
C10_Witness ==
    /\ "moon_phase" \in DOMAIN df
    /\ \E i, j \in 1..NRows(df) :
          /\ AgeOfRow(i) < FullMoon
          /\ AgeOfRow(i) + AgeOfRow(j) = 2 * FullMoon
          /\ df["moon_phase"][i] = df["moon_phase"][j]
          /\ df["moon_phase"][i].num > 0

====
